---- MODULE Spec2Model ----
(***************************************************************************)
(* A model of gsutil's cp/mv command (gslib/commands/cp.py): option        *)
(* validation (_ParseOpts), the command entry point (RunCommand), the      *)
(* per-task worker function (CopyFunc) run by a pool of worker threads,    *)
(* and the exception handler the dispatcher calls (_CopyExceptionHandler). *)
(* The transfer engine (copy_helper.PerformCopy), the manifest             *)
(* (copy_helper.Manifest), the storage API and the dispatcher              *)
(* (Command.Apply) are collaborators whose answers are drawn               *)
(* nondeterministically.                                                   *)
(***************************************************************************)
EXTENDS Integers, Sequences, FiniteSets, TLC

\* Number of copy tasks the task iterator yields at most in one run.
MaxTasks == 2

Tasks == 1..MaxTasks

\* The worker threads of one process; without -m only the first one runs.
Workers == {"w1", "w2"}

\* Python's None.
NoVal == "None"

VARIABLES
  sub_opts,                \* self.sub_opts: the option letters given
  canned_arg,              \* the argument of -a
  storage_arg,             \* the argument of -s
  parallel_operations,     \* self.parallel_operations: top-level -m
  pool,                    \* the worker threads Apply runs
  args,                    \* self.args: [n |-> len(args), dst |-> kind of args[-1]]
  dst_state,               \* the destination: "cloud", "dir" (local, exists), "missing"
  rc_pc,                   \* position of RunCommand
  result,                  \* what RunCommand returned or raised
  opts,                    \* copy_helper_opts and the self.* flags _ParseOpts sets
  recursion_requested,     \* self.recursion_requested
  manifest,                \* self.manifest: source -> record
  manifest_created,        \* Manifest(a) was constructed
  seek_ahead_iterator,     \* a SeekAheadNameExpansionIterator was created
  have_existing_dst_container, \* of the DestinationInfo the iterator built
  combined_src_urls,       \* self.combined_src_urls
  next_task,               \* index of the next task the iterator yields
  exhausted,               \* the iterator raised StopIteration
  stop,                    \* the exception Apply re-raised (fail_on_error), or NoVal
  pc,                      \* position of each worker in CopyFunc
  cur,                     \* the task and locals of each worker
  stats_lock,              \* holder of self.stats_lock, or NoVal
  op_failure_count,        \* self.op_failure_count
  total_bytes_transferred, \* self.total_bytes_transferred
  deleted,                 \* sources deleted (DeleteObject / os.unlink)
  del_failed,              \* sources whose deletion raised
  engine_calls,            \* sources PerformCopy was called for
  outcome                  \* the CopyOutcome of each task

cmdVars == <<sub_opts, canned_arg, storage_arg, parallel_operations, pool,
             args>>
setupVars == <<rc_pc, result, opts, manifest_created, seek_ahead_iterator>>
runVars == <<setupVars, have_existing_dst_container, combined_src_urls>>
applyVars == <<next_task, exhausted, stop>>
statVars == <<stats_lock, op_failure_count, total_bytes_transferred>>
worldVars == <<dst_state, deleted, del_failed, engine_calls>>

vars == <<sub_opts, canned_arg, storage_arg, parallel_operations, pool, args,
          dst_state,
          rc_pc,
          result, opts, recursion_requested, manifest, manifest_created,
          seek_ahead_iterator, have_existing_dst_container,
          combined_src_urls, next_task,
          exhausted, stop, pc, cur,
          stats_lock, op_failure_count, total_bytes_transferred, deleted,
          del_failed, engine_calls, outcome>>

----------------------------------------------------------------------------
\* Option validation: CpCommand._ParseOpts

\* Python truth value of canned_acl: None (the empty tuple) and '' are
\* false, every other string is true.
Truthy(a) == a # <<>> /\ a[1] # ""

Has(so, o) == o \in so

\* canned_acl after the option loop: None (the empty tuple) without -a,
\* the argument of -a, a string ca, as <<ca>>.
canned_acl_of(so, ca) == IF Has(so, "a") THEN <<ca>> ELSE <<>>

\* text_util.NormalizeStorageClass: the name of the class in upper case;
\* the empty string stays empty.
NormalizeStorageClass(a) ==
  CASE a = "" -> ""
    [] a = "nearline" -> "NEARLINE"
    [] OTHER -> a

\* Truth value of dest_storage_class after the option loop: None without
\* -s, the normalised argument of -s otherwise, false when it is empty.
dest_storage_class_of(so, sc) ==
  Has(so, "s") /\ NormalizeStorageClass(sc) # ""

\* self.recursion_requested after the option loop: -r and -R set it.
recursion_of(so) == Has(so, "r") \/ Has(so, "R")
gzip_encoded_of(so) == Has(so, "j") \/ Has(so, "J")
gzip_local_of(so) == Has(so, "z") \/ Has(so, "Z")
gzip_arg_exts_of(so) == Has(so, "j") \/ Has(so, "z")
gzip_arg_all_of(so) == Has(so, "J") \/ Has(so, "Z")

\* _ParseOpts without the check of -A against -m.
ParseOptsError_NoVersionsCheck(so, ca, par) ==
  IF Has(so, "p") /\ Truthy(canned_acl_of(so, ca)) THEN "p_and_a"
  ELSE IF gzip_encoded_of(so) /\ gzip_local_of(so) THEN "jJ_and_zZ"
  ELSE IF gzip_arg_exts_of(so) /\ gzip_arg_all_of(so)
       THEN IF gzip_encoded_of(so) THEN "j_and_J" ELSE "z_and_Z"
  ELSE NoVal

\* _ParseOpts with the check of the extension list against the all-files
\* form ahead of the check of wire gzip against local gzip.
ParseOptsError_ExtAllFirst(so, ca, par) ==
  IF Has(so, "p") /\ Truthy(canned_acl_of(so, ca)) THEN "p_and_a"
  ELSE IF Has(so, "A") /\ par THEN "A_and_m"
  ELSE IF gzip_arg_exts_of(so) /\ gzip_arg_all_of(so)
       THEN IF gzip_encoded_of(so) THEN "j_and_J" ELSE "z_and_Z"
  ELSE IF gzip_encoded_of(so) /\ gzip_local_of(so) THEN "jJ_and_zZ"
  ELSE NoVal

\* The conflict checks after the option loop, in the order of the code;
\* NoVal when the options pass.
ParseOptsError(so, ca, par) ==
  IF Has(so, "p") /\ Truthy(canned_acl_of(so, ca)) THEN "p_and_a"
  ELSE IF Has(so, "A") /\ par THEN "A_and_m"
  ELSE IF gzip_encoded_of(so) /\ gzip_local_of(so) THEN "jJ_and_zZ"
  ELSE IF gzip_arg_exts_of(so) /\ gzip_arg_all_of(so)
       THEN IF gzip_encoded_of(so) THEN "j_and_J" ELSE "z_and_Z"
  ELSE NoVal

\* The values _ParseOpts starts from.
DefaultOpts ==
  [perform_mv |-> FALSE, no_clobber |-> FALSE, continue_on_error |-> FALSE,
   read_args_from_stdin |-> FALSE, use_manifest |-> FALSE,
   preserve_acl |-> FALSE, canned_acl |-> <<>>,
   preserve_posix_attrs |-> FALSE, all_versions |-> FALSE,
   skip_unsupported_objects |-> FALSE, dest_storage_class |-> FALSE,
   gzip_encoded |-> FALSE, gzip_exts |-> FALSE]

\* CreateCopyHelperOpts(...) together with the self.* flags of the option loop.
ParsedOpts(so, ca, sc) ==
  [perform_mv |-> Has(so, "M"), no_clobber |-> Has(so, "n"),
   continue_on_error |-> Has(so, "c"),
   read_args_from_stdin |-> Has(so, "I"), use_manifest |-> Has(so, "L"),
   preserve_acl |-> Has(so, "p"), canned_acl |-> canned_acl_of(so, ca),
   preserve_posix_attrs |-> Has(so, "P"), all_versions |-> Has(so, "A"),
   skip_unsupported_objects |-> Has(so, "U"),
   dest_storage_class |-> dest_storage_class_of(so, sc),
   gzip_encoded |-> gzip_encoded_of(so),
   gzip_exts |-> (gzip_arg_exts_of(so) \/ gzip_arg_all_of(so))]

\* The flags when a conflict check raises: the self.* flags the option
\* loop has assigned; CreateCopyHelperOpts has not been called and
\* self.gzip_exts and self.gzip_encoded have not been assigned.
FlagsAtRaise(so) ==
  [DefaultOpts EXCEPT !.continue_on_error = Has(so, "c"),
                      !.preserve_posix_attrs = Has(so, "P"),
                      !.all_versions = Has(so, "A"),
                      !.skip_unsupported_objects = Has(so, "U")]

----------------------------------------------------------------------------
\* The manifest (copy_helper.Manifest): one record per source locator.

\* A record of the manifest.
\*   prior: the status the manifest file held for the source when it was
\*   loaded ("none": no line); status, bytes, md5: the entry of this run;
\*   lines: the result lines this run wrote for the source; description:
\*   the text of the last result, a sequence of characters.
NoRecord ==
  [prior |-> "none", status |-> "none", bytes |-> 0, md5 |-> NoVal,
   lines |-> 0, description |-> <<>>]

\* Bytes the transfer engine reports for task t (distinct powers of two, so
\* that a sum identifies the set of tasks it was built from).
SrcSize(t) == 2 ^ (t - 1)

\* A record left in the manifest file by an earlier run.
PriorRecord(t, status) ==
  [prior |-> status, status |-> status,
   bytes |-> IF status = "OK" THEN SrcSize(t) ELSE 0,
   md5 |-> NoVal, lines |-> 0, description |-> <<>>]

\* Manifest.WasSuccessful taking only a copied source for done.
WasSuccessful_OnlyOK(m, s) == m[s].prior = "OK"

\* Manifest.WasSuccessful: the loaded file records the source as copied or
\* skipped.
WasSuccessful(m, s) == m[s].prior \in {"OK", "skip"}

\* Manifest.Initialize: a fresh, pending entry for the source.
Initialize(m, s) ==
  [m EXCEPT ![s].status = "pending", ![s].bytes = 0, ![s].md5 = NoVal]

\* Manifest.Set(url, 'md5', md5)
SetMd5(m, s, md5) == [m EXCEPT ![s].md5 = md5]

\* Manifest.SetResult: the final status, the byte count and the description
\* as it is given, written as one record.
SetResult(m, s, bytes, status, description) ==
  [m EXCEPT ![s].status = status, ![s].bytes = bytes, ![s].lines = @ + 1,
            ![s].description = description]

\* The texts of the exceptions PerformCopy raises (str(e)): characters,
\* with "CR" and "LF" for the line terminators.
PlainText == <<"e">>
ExceptionTexts == {PlainText, <<"e", "CR", "LF", "r">>}

\* The text has no line terminator.
IsSingleLine(text) == \A i \in 1..Len(text) : text[i] \notin {"CR", "LF"}

\* text_util.RemoveCRLFFromString
RemoveCRLFFromString(text) ==
  SelectSeq(text, LAMBDA c : c \notin {"CR", "LF"})

\* message = 'Error copying %s: %s' % (src_url, str(e))
ErrorMessage(text) == <<"Error copying src: ">> \o text

\* The texts of the URLs the messages name: characters, with "LF" for a
\* line feed in a path.
PlainUrl == <<"u">>
UrlTexts == {PlainUrl, <<"u", "LF", "v">>}

\* The messages of the skips ('Skipping existing item: %s' % dst_url and
\* the like): a fixed text and the URL as it is.
SkipMessage(url) == <<"Skipping ">> \o url

----------------------------------------------------------------------------
\* The worker function: CpCommand.CopyFunc

\* The copy tasks the task iterator can yield (copy_object_info).
\*   src: kind of source_storage_url; placeholder: IsCloudSubdirPlaceholder of
\*   expanded_storage_url; names_container; multi: is_multi_source_request.
TaskSpace ==
  { t \in [src : {"provider", "stream", "file", "object"},
           placeholder : BOOLEAN, names_container : BOOLEAN,
           multi : BOOLEAN] :
      /\ t.placeholder => t.src \in {"provider", "object"}
      /\ t.names_container => (t.src \in {"file", "object"} /\ ~t.placeholder) }

\* The head of CopyFunc without the look-up in the manifest.
PreflightResult_NoManifest(t, o, par, insist_raises, was_successful) ==
  IF t.src = "provider" THEN "raise_provider"
  ELSE IF o.preserve_posix_attrs /\ t.src = "stream" THEN "raise_posix_stream"
  ELSE IF par /\ t.src = "stream" THEN "raise_parallel_stream"
  ELSE IF t.multi /\ insist_raises THEN "raise_insist"
  ELSE IF t.placeholder THEN "drop_placeholder"
  ELSE "go"

\* The head of CopyFunc without the filter for placeholder objects.
PreflightResult_NoPlaceholder(t, o, par, insist_raises, was_successful) ==
  IF t.src = "provider" THEN "raise_provider"
  ELSE IF o.preserve_posix_attrs /\ t.src = "stream" THEN "raise_posix_stream"
  ELSE IF par /\ t.src = "stream" THEN "raise_parallel_stream"
  ELSE IF t.multi /\ insist_raises THEN "raise_insist"
  ELSE IF o.use_manifest /\ was_successful THEN "drop_manifest"
  ELSE "go"

\* The head of CopyFunc with the filter for placeholder objects ahead of
\* the checks that raise.
PreflightResult_PlaceholderFirst(t, o, par, insist_raises, was_successful) ==
  IF t.placeholder THEN "drop_placeholder"
  ELSE IF t.src = "provider" THEN "raise_provider"
  ELSE IF o.preserve_posix_attrs /\ t.src = "stream" THEN "raise_posix_stream"
  ELSE IF par /\ t.src = "stream" THEN "raise_parallel_stream"
  ELSE IF t.multi /\ insist_raises THEN "raise_insist"
  ELSE IF o.use_manifest /\ was_successful THEN "drop_manifest"
  ELSE "go"

\* The checks at the head of CopyFunc, in the order of the code.
\*   insist_raises: InsistDstUrlNamesContainer raises for this destination;
\*   was_successful: manifest.WasSuccessful(exp_src_url.url_string).
PreflightResult(t, o, par, insist_raises, was_successful) ==
  IF t.src = "provider" THEN "raise_provider"
  ELSE IF o.preserve_posix_attrs /\ t.src = "stream" THEN "raise_posix_stream"
  ELSE IF par /\ t.src = "stream" THEN "raise_parallel_stream"
  ELSE IF t.multi /\ insist_raises THEN "raise_insist"
  ELSE IF t.placeholder THEN "drop_placeholder"
  ELSE IF o.use_manifest /\ was_successful THEN "drop_manifest"
  ELSE "go"

IsRaise(r) == r \in {"raise_provider", "raise_posix_stream",
                     "raise_parallel_stream", "raise_insist",
                     "raise_makedirs", "raise_dirfile", "raise_same",
                     "raise_generation", "raise_storage_class",
                     "raise_os_stat", "raise_orphan", "raise_transfer", "raise_delete"}

\* What the naming helpers find for the computed destination.
\*   stat_fails: the source is a file copied with -P and os.stat of it
\*   raises OSError (the file is gone or cannot be read).
NamingSpace ==
  [dirfile : BOOLEAN, same : BOOLEAN, generation : BOOLEAN,
   stat_fails : BOOLEAN, posix_invalid : BOOLEAN]

NoNaming ==
  [dirfile |-> FALSE, same |-> FALSE, generation |-> FALSE,
   stat_fails |-> FALSE, posix_invalid |-> FALSE]

\* The findings possible for a destination: a destination that is the
\* source itself is of the kind of the source, only a cloud URL has a
\* generation, os.stat is called only with -P, and permissions are
\* validated only for a local destination.
NamingCases(dst_cloud, o) ==
  { d \in NamingSpace :
      /\ ~(d.dirfile /\ d.same)
      /\ d.generation => dst_cloud
      /\ d.stat_fails => o.preserve_posix_attrs
      /\ d.posix_invalid => (~dst_cloud /\ o.preserve_posix_attrs) }

\* The source URLs a task can come with (source_storage_url): a task whose
\* source names a container comes from the descent of root or of root/a;
\* a source that is no container is matched by the flat wildcard
\* dir1/dir2/** when the request has several sources and is named by its
\* own path otherwise.
SrcUrls(t) ==
  IF t.names_container THEN {<<"root">>, <<"root", "a">>}
  ELSE IF t.multi THEN {<<"dir1", "dir2", "**">>}
  ELSE {<<"dir1", "dir2", "a", "b", "c">>}

\* The expanded source of a task (expanded_storage_url): the item a/b/c
\* below root, or the file a/b/c below dir1/dir2.
ExpSrcUrl(t) ==
  IF t.names_container THEN <<"root", "a", "b", "c">>
  ELSE <<"dir1", "dir2", "a", "b", "c">>

\* copy_object_info.is_multi_top_level_source_request: several top-level
\* sources are several sources.
MultiTopLevel(t) == {b \in BOOLEAN : b => t.multi}

\* copy_object_info.exp_dst_url
ExpDstUrl == <<"dst">>

\* The part of path p from component k on.
From(p, k) == SubSeq(p, k, Len(p))

\* copy_helper.ConstructDstUrl with every recursive run taken for a descent,
\* whatever the source names.
ConstructDstUrl_AnyRecursion(src_url, exp_src_url, src_url_names_container, have_multiple_srcs, is_multi_top_level_source_request, exp_dst_url, have_existing_dst, recursion, preserve_posix) ==
  LET container_descent == recursion
      relative_path ==
        IF container_descent
        THEN IF have_existing_dst
             THEN From(exp_src_url, Len(src_url))
             ELSE From(exp_src_url, Len(src_url) + 1)
        ELSE From(exp_src_url, Len(exp_src_url))
  IN  IF /\ ~have_existing_dst
         /\ ~have_multiple_srcs /\ ~src_url_names_container
      THEN exp_dst_url
      ELSE exp_dst_url \o relative_path

\* copy_helper.ConstructDstUrl, by the naming rules:
\*  - the item of a container descent, that is of a recursive copy of a
\*    source that names a container, mirrors the source from the point of
\*    recursive processing: its path from the named container on when the
\*    destination exists as a container (cp -r dir1/dir2 to an existing
\*    subdir gives subdir/dir2/a/b/c), its path below the named container
\*    when the destination is new (subdir/a/b/c);
\*  - the item of any other match keeps its final path component;
\*  - the relative path nests under the destination, but a destination that
\*    does not exist is itself the name for a single source that is no
\*    container.
\* is_multi_top_level_source_request and preserve_posix are arguments of
\* the call that none of these rules reads.
ConstructDstUrl(src_url, exp_src_url, src_url_names_container, have_multiple_srcs, is_multi_top_level_source_request, exp_dst_url, have_existing_dst, recursion, preserve_posix) ==
  LET container_descent == recursion /\ src_url_names_container
      relative_path ==
        IF container_descent
        THEN IF have_existing_dst
             THEN From(exp_src_url, Len(src_url))
             ELSE From(exp_src_url, Len(src_url) + 1)
        ELSE From(exp_src_url, Len(exp_src_url))
  IN  IF /\ ~have_existing_dst
         /\ ~have_multiple_srcs /\ ~src_url_names_container
      THEN exp_dst_url
      ELSE exp_dst_url \o relative_path

\* The checks on the computed destination without the same-file check.
NamingResult_NoSameCheck(d, o, dst_cloud) ==
  IF d.dirfile THEN "raise_dirfile"
  ELSE IF dst_cloud /\ d.generation THEN "raise_generation"
  ELSE IF ~dst_cloud /\ o.dest_storage_class THEN "raise_storage_class"
  ELSE IF o.preserve_posix_attrs /\ d.stat_fails THEN "raise_os_stat"
  ELSE IF ~dst_cloud /\ o.preserve_posix_attrs /\ d.posix_invalid
       THEN "raise_orphan"
  ELSE "go"

\* The checks on the computed destination without the check of the storage
\* class.
NamingResult_NoStorageClassCheck(d, o, dst_cloud) ==
  IF d.dirfile THEN "raise_dirfile"
  ELSE IF d.same THEN "raise_same"
  ELSE IF dst_cloud /\ d.generation THEN "raise_generation"
  ELSE IF o.preserve_posix_attrs /\ d.stat_fails THEN "raise_os_stat"
  ELSE IF ~dst_cloud /\ o.preserve_posix_attrs /\ d.posix_invalid
       THEN "raise_orphan"
  ELSE "go"

\* The checks on the computed destination, in the order of the code, with
\* os.stat of a file source under -P between the check of the storage
\* class and the check of the permissions.
NamingResult(d, o, dst_cloud) ==
  IF d.dirfile THEN "raise_dirfile"
  ELSE IF d.same THEN "raise_same"
  ELSE IF dst_cloud /\ d.generation THEN "raise_generation"
  ELSE IF ~dst_cloud /\ o.dest_storage_class THEN "raise_storage_class"
  ELSE IF o.preserve_posix_attrs /\ d.stat_fails THEN "raise_os_stat"
  ELSE IF ~dst_cloud /\ o.preserve_posix_attrs /\ d.posix_invalid
       THEN "raise_orphan"
  ELSE "go"

\* What copy_helper.PerformCopy returns or raises.
EngineSignals ==
  {"ok", "ItemExistsError", "SkipUnsupportedObjectError",
   "FileConcurrencySkipError", "NoClobberServerException", "Exception"}

\* What a transfer can come to: done, the destination exists (no-clobber),
\* the object is of an unsupported type, the destination is being copied
\* by another task, the server rejects the precondition, any other error.
EngineResults ==
  {"ok", "exists", "unsupported_type", "concurrency", "rejected", "error"}

\* What copy_helper.PerformCopy returns or raises for a result of the
\* transfer. CopyFunc hands it no flag of its own and looks at none when it
\* handles the signal: whether an object of an unsupported type is skipped
\* is the engine's decision, and every signal can come in every run.
PerformCopy(res) ==
  CASE res = "ok" -> "ok"
    [] res = "exists" -> "ItemExistsError"
    [] res = "unsupported_type" -> "SkipUnsupportedObjectError"
    [] res = "concurrency" -> "FileConcurrencySkipError"
    [] res = "rejected" -> "NoClobberServerException"
    [] OTHER -> "Exception"

\* copy_helper.IsNoClobberServerException
IsNoClobberServerException(sig) == sig = "NoClobberServerException"

\* The try statement with the source's deletion after it instead of in its
\* else branch: an existing item is handled like a finished copy.
HandlerBranch_SkipAsSuccess(sig, o) ==
  CASE sig \in {"ok", "ItemExistsError"} -> "else"
    [] sig = "SkipUnsupportedObjectError" -> "skip_unsupported"
    [] sig = "FileConcurrencySkipError" -> "skip_concurrency"
    [] OTHER ->
         IF o.no_clobber /\ IsNoClobberServerException(sig)
         THEN "skip_noclobber"
         ELSE IF o.continue_on_error THEN "count" ELSE "raise"

\* The try statement with the source's deletion in a finally clause: it
\* runs whatever PerformCopy returned or raised.
HandlerBranch_DeleteInFinally(sig, o) == "else"

\* The try statement without the clause for FileConcurrencySkipError: the
\* broad "except Exception" clause gets it.
HandlerBranch_NoConcurrencyClause(sig, o) ==
  CASE sig = "ok" -> "else"
    [] sig = "ItemExistsError" -> "skip_exists"
    [] sig = "SkipUnsupportedObjectError" -> "skip_unsupported"
    [] OTHER ->
         IF o.no_clobber /\ IsNoClobberServerException(sig)
         THEN "skip_noclobber"
         ELSE IF o.continue_on_error THEN "count" ELSE "raise"

\* The try statement with the server's no-clobber rejection skipped
\* whether or not -n was given.
HandlerBranch_NoClobberUnchecked(sig, o) ==
  CASE sig = "ok" -> "else"
    [] sig = "ItemExistsError" -> "skip_exists"
    [] sig = "SkipUnsupportedObjectError" -> "skip_unsupported"
    [] sig = "FileConcurrencySkipError" -> "skip_concurrency"
    [] OTHER ->
         IF IsNoClobberServerException(sig)
         THEN "skip_noclobber"
         ELSE IF o.continue_on_error THEN "count" ELSE "raise"

\* The branch of CopyFunc's try statement that handles the engine's signal.
HandlerBranch(sig, o) ==
  CASE sig = "ok" -> "else"
    [] sig = "ItemExistsError" -> "skip_exists"
    [] sig = "SkipUnsupportedObjectError" -> "skip_unsupported"
    [] sig = "FileConcurrencySkipError" -> "skip_concurrency"
    [] OTHER ->
         IF o.no_clobber /\ IsNoClobberServerException(sig)
         THEN "skip_noclobber"
         ELSE IF o.continue_on_error THEN "count" ELSE "raise"

\* The outcome of the copy, by what PerformCopy returned or raised: a return
\* is a success; the three skip exceptions, and a server's no-clobber
\* rejection under -n, are skips; every other exception is a failure.
CopyOutcome(sig, o) ==
  IF sig = "ok" THEN "Success"
  ELSE IF sig \in {"ItemExistsError", "SkipUnsupportedObjectError",
                   "FileConcurrencySkipError"}
          \/ (o.no_clobber /\ IsNoClobberServerException(sig))
       THEN "Skipped"
  ELSE "Failed"

\* The branches that call manifest.SetResult(..., 0, 'skip', message).
RecordsSkip(branch) ==
  branch \in {"skip_exists", "skip_unsupported", "skip_noclobber"}

IsSkipBranch(branch) == RecordsSkip(branch) \/ branch = "skip_concurrency"

----------------------------------------------------------------------------
\* State of a worker

\* The copy task of a worker that runs none.
NoTask ==
  [src |-> "none", placeholder |-> FALSE, names_container |-> FALSE,
   multi |-> FALSE]

\* A worker that runs no task.
\*   task: index of the task; info: the copy_object_info handed to CopyFunc;
\*   recursion: the recursion flag passed to ConstructDstUrl;
\*   src_url: the source_storage_url of the task that is being copied;
\*   dst: the dst_url that ConstructDstUrl returned, a path;
\*   sig: what PerformCopy returned or raised; bytes: bytes_transferred;
\*   tmp: the value read by the pending "+="; err: the exception that left
\*   CopyFunc; msg: str(e) of the exception the broad except clause caught.
IdleCur ==
  [task |-> 0, info |-> NoTask, recursion |-> FALSE, src_url |-> <<>>,
   dst |-> <<>>,
   sig |-> NoVal, bytes |-> 0, tmp |-> 0, err |-> NoVal, msg |-> <<>>]

\* The workers Apply runs.
ActiveWorkers == {w \in Workers : w \in pool}

\* Apply called with fail_on_error=True whatever the options.
fail_on_error_Always == TRUE

\* fail_on_error=(not self.continue_on_error), as RunCommand passes it to Apply.
fail_on_error == ~opts.continue_on_error

\* Whether Apply re-raises the exception of a worker and hands out no
\* further task. Apply is handed fail_on_error, and -c "is implicitly set
\* when running gsutil -m cp" (the help text of -c; the name expansion is
\* given continue_on_error or parallel_operations in the same way): with -m
\* Apply hands every exception to the handler and goes on.
StopsOnError == fail_on_error /\ ~parallel_operations

NoResult == [kind |-> "none", err |-> NoVal, count |-> 0]

\* Task t was handed to a worker and that worker is done with it.
Ended(t) == t < next_task /\ \A w \in Workers : cur[w].task # t

\* Apply ran and RunCommand has returned or raised.
Completed == rc_pc = "done" /\ (exhausted \/ stop # NoVal)

----------------------------------------------------------------------------
\* Steps of a worker

\* Exception e leaves CopyFunc in worker w.
Raise(w, e) ==
  /\ pc' = [pc EXCEPT ![w] = "raised"]
  /\ cur' = [cur EXCEPT ![w].info = NoTask, ![w].err = e]

\* Apply gets the exception of worker w. Apply (gslib/command.py) follows
\* the dispatcher of the specification: when it stops on errors it
\* re-raises the exception and hands out no further task, while the tasks
\* in flight run to their end; otherwise it calls the handler RunCommand
\* gave it, _CopyExceptionHandler, whose "cls.op_failure_count += 1" starts
\* by reading the count, and goes on.
ApplyOnException(w) ==
  /\ pc[w] = "raised"
  /\ IF StopsOnError
     THEN /\ stop' = IF stop = NoVal THEN cur[w].err ELSE stop
          /\ pc' = [pc EXCEPT ![w] = "idle"]
          /\ cur' = [cur EXCEPT ![w] = IdleCur]
     ELSE /\ stop' = stop
          /\ pc' = [pc EXCEPT ![w] = "handler_write"]
          /\ cur' = [cur EXCEPT ![w].tmp = op_failure_count,
                                ![w].err = NoVal]
  /\ UNCHANGED <<cmdVars, runVars, statVars, worldVars, next_task, exhausted,
                 recursion_requested, manifest, outcome>>

\* _CopyExceptionHandler: cls.op_failure_count += 1, the write.
HandlerWrite(w) ==
  /\ pc[w] = "handler_write"
  /\ op_failure_count' = cur[w].tmp + 1
  /\ pc' = [pc EXCEPT ![w] = "idle"]
  /\ cur' = [cur EXCEPT ![w] = IdleCur]
  /\ UNCHANGED <<cmdVars, runVars, applyVars, worldVars, stats_lock,
                 total_bytes_transferred, recursion_requested, manifest,
                 outcome>>

\* self.args: the source arguments and, last, the destination.
ArgList(a) ==
  [k \in 1..a.n |-> IF k = a.n THEN a.dst ELSE <<"src1", "src2">>[k]]

\* src_url_strs: one list, of the source arguments or of the stdin iterator.
src_url_strs(a, o) ==
  IF o.read_args_from_stdin THEN <<<<"StdinIteratorCls">>>>
  ELSE <<SubSeq(ArgList(a), 1, a.n - 1)>>

\* self.combined_src_urls once the generator has built its first k tuples:
\* each tuple chains its list of sources to the collection so far.
RECURSIVE CombinedSrcUrlsAfter(_, _, _)
CombinedSrcUrlsAfter(k, strs, combined) ==
  IF k = 0 \/ strs = <<>> THEN combined
  ELSE CombinedSrcUrlsAfter(k - 1, Tail(strs), combined \o Head(strs))

\* The number of tuples the constructor of CopyObjectsIterator may take
\* from the generator it wraps before RunCommand goes on: none when it only
\* keeps the generator, one when it prepares its first expansion.
CopyObjectsIterator(strs) == IF strs = <<>> THEN {0} ELSE {0, 1}

\* ExpandUrlToSingleBlr: whether the destination is an existing container.
ExpandUrlToSingleBlr(dst) == dst # "missing"

\* The generator has built its tuple: it has chained the sources.
TupleBuilt == combined_src_urls # <<>>

\* The generator of the (sources, destination) tuples asked for its first k
\* tuples. Up to its first yield it runs in one go: it expands the
\* destination, builds the DestinationInfo and chains the sources of the
\* tuple to self.combined_src_urls. RunCommand gives it one tuple, so once
\* that is built nothing is left to do.
ConstructNameExpansionIteratorDstTupleIterator(k) ==
  IF k = 0 \/ TupleBuilt
  THEN UNCHANGED <<have_existing_dst_container, combined_src_urls>>
  ELSE /\ have_existing_dst_container' = ExpandUrlToSingleBlr(dst_state)
       /\ combined_src_urls' =
            CombinedSrcUrlsAfter(k, src_url_strs(args, opts), <<>>)

\* Apply takes the next task from the iterator, which asks the generator
\* for its tuple when it has none yet, and calls _CopyFuncWrapper.
Dispatch(w) ==
  /\ rc_pc = "apply" /\ w \in ActiveWorkers /\ pc[w] = "idle"
  /\ stop = NoVal /\ ~exhausted /\ next_task <= MaxTasks
  /\ \E t \in TaskSpace :
       cur' = [cur EXCEPT ![w] = [IdleCur EXCEPT !.task = next_task,
                                                 !.info = t]]
  /\ pc' = [pc EXCEPT ![w] = "preflight"]
  /\ next_task' = next_task + 1
  /\ ConstructNameExpansionIteratorDstTupleIterator(1)
  /\ UNCHANGED <<cmdVars, setupVars, statVars, worldVars, exhausted, stop,
                 recursion_requested, manifest, outcome>>

\* The task iterator, asked for a task, has no more tasks.
Exhaust ==
  /\ rc_pc = "apply" /\ ~exhausted /\ stop = NoVal
  /\ exhausted' = TRUE
  /\ ConstructNameExpansionIteratorDstTupleIterator(1)
  /\ UNCHANGED <<cmdVars, setupVars, statVars, worldVars, next_task, stop, pc,
                 cur, recursion_requested, manifest, outcome>>

\* A task whose flag is looked up again when the task is named.
DestinationInfo_Fresh(at_expansion, at_naming) == at_naming

\* copy_object_info.have_existing_dst_container: the flag of the
\* DestinationInfo that the iterator built when it expanded the destination,
\* whatever the destination is by the time the task is named.
DestinationInfo(at_expansion, at_naming) == at_expansion

\* CopyFunc from ConstructDstUrl to the call of PerformCopy: the naming
\* checks, then manifest.Initialize and the call of the transfer engine.
\*   rec: the value of self.recursion_requested that ConstructDstUrl gets.
NameAndCall(w, rec) ==
  \E d \in {x \in NamingCases(dst_state = "cloud", opts) :
               x.stat_fails => cur[w].info.src = "file"},
     src_url \in SrcUrls(cur[w].info),
     top \in MultiTopLevel(cur[w].info) :
    LET t == cur[w].task
        i == cur[w].info
        r == NamingResult(d, opts, dst_state = "cloud")
        dst_url == ConstructDstUrl(src_url, ExpSrcUrl(i),
                                   i.names_container, i.multi, top,
                                   ExpDstUrl,
                                   DestinationInfo(
                                     have_existing_dst_container,
                                     dst_state # "missing"),
                                   rec, opts.preserve_posix_attrs)
    IN  IF IsRaise(r)
        THEN /\ Raise(w, r)
             /\ outcome' = [outcome EXCEPT ![t] = "Failed"]
             /\ UNCHANGED <<manifest, engine_calls>>
        ELSE /\ pc' = [pc EXCEPT ![w] = "transfer"]
             /\ cur' = [cur EXCEPT ![w].info = NoTask, ![w].recursion = rec,
                                   ![w].src_url = src_url,
                                   ![w].dst = dst_url]
             /\ manifest' = IF opts.use_manifest
                            THEN Initialize(manifest, t)
                            ELSE manifest
             /\ engine_calls' = engine_calls \cup {t}
             /\ UNCHANGED outcome

\* CopyFunc leaving self.recursion_requested as it finds it.
RecursionForMove_Unchanged(rr, o, i) == rr

\* self.recursion_requested after the check for the move of a container:
\* set when the task is one, left as it is otherwise.
RecursionForMove(rr, o, i) == rr \/ (o.perform_mv /\ i.names_container)

\* CopyFunc from its head to the call of PerformCopy, or to os.makedirs
\* when the destination directory of a multi-source copy is missing.
Preflight(w) ==
  /\ pc[w] = "preflight"
  /\ \E insist_raises \in (IF cur[w].info.multi THEN BOOLEAN ELSE {FALSE}) :
       LET t == cur[w].task
           i == cur[w].info
           r == PreflightResult(i, opts, parallel_operations, insist_raises,
                                WasSuccessful(manifest, t))
           rec == RecursionForMove(recursion_requested, opts, i)
       IN  CASE IsRaise(r) ->
                  /\ Raise(w, r)
                  /\ outcome' = [outcome EXCEPT ![t] = "Failed"]
                  /\ UNCHANGED <<recursion_requested, manifest, dst_state,
                                 engine_calls>>
             [] r \in {"drop_placeholder", "drop_manifest"} ->
                  /\ pc' = [pc EXCEPT ![w] = "idle"]
                  /\ cur' = [cur EXCEPT ![w] = IdleCur]
                  /\ outcome' = [outcome EXCEPT ![t] =
                       IF r = "drop_placeholder" THEN "NoOp"
                       ELSE "AlreadyDone"]
                  /\ UNCHANGED <<recursion_requested, manifest, dst_state,
                                 engine_calls>>
             [] OTHER ->
                  /\ recursion_requested' = rec
                  /\ IF dst_state = "missing" /\ i.multi
                     THEN /\ pc' = [pc EXCEPT ![w] = "makedirs"]
                          /\ UNCHANGED <<cur, manifest, engine_calls,
                                         outcome>>
                     ELSE NameAndCall(w, rec)
                  /\ UNCHANGED dst_state
  /\ UNCHANGED <<cmdVars, runVars, applyVars, statVars, deleted, del_failed>>

\* os.makedirs with every OSError raised on, EEXIST included.
MakedirsResults_EexistRaises(dst) ==
  IF dst = "missing" THEN {"created", "raise_makedirs"}
  ELSE {"raise_makedirs"}

\* What os.makedirs and its except clause come to: the directory is
\* created, or it exists by now (EEXIST, swallowed), or another OSError is
\* raised on.
MakedirsResults(dst) ==
  IF dst = "missing" THEN {"created", "raise_makedirs"} ELSE {"exists"}

\* os.makedirs of the destination; EEXIST is swallowed, other errors raise.
\* Then CopyFunc goes on to the call of PerformCopy.
MakeDirs(w) ==
  /\ pc[w] = "makedirs"
  /\ \E r \in MakedirsResults(dst_state) :
       IF IsRaise(r)
       THEN /\ Raise(w, r)
            /\ outcome' = [outcome EXCEPT ![cur[w].task] = "Failed"]
            /\ UNCHANGED <<dst_state, manifest, engine_calls>>
       ELSE /\ dst_state' = "dir"
            /\ NameAndCall(w, recursion_requested)
  /\ UNCHANGED <<cmdVars, runVars, applyVars, statVars, deleted, del_failed,
                 recursion_requested>>

\* PerformCopy returns or raises, and CopyFunc's try statement handles it.
TransferEnd(w) ==
  /\ pc[w] = "transfer"
  /\ \E sig \in {x \in EngineSignals :
                   \E res \in EngineResults : x = PerformCopy(res)},
        md5 \in (IF opts.use_manifest THEN {NoVal, "md5"} ELSE {NoVal}),
        text \in (IF opts.use_manifest THEN ExceptionTexts ELSE {PlainText}),
        url \in (IF opts.use_manifest THEN UrlTexts ELSE {PlainUrl}) :
       LET t == cur[w].task
           b == HandlerBranch(sig, opts)
       IN  /\ (md5 # NoVal => sig = "ok")
           /\ (text # PlainText => b \in {"count", "raise"})
           /\ (url # PlainUrl => RecordsSkip(b))
           /\ CASE b = "else" ->
                  /\ manifest' =
                       IF opts.use_manifest
                       THEN SetResult(IF md5 # NoVal
                                      THEN SetMd5(manifest, t, md5)
                                      ELSE manifest,
                                      t, SrcSize(t), "OK", <<>>)
                       ELSE manifest
                  /\ cur' = [cur EXCEPT ![w].recursion = FALSE,
                                        ![w].src_url = <<>>,
                                        ![w].dst = <<>>,
                                        ![w].sig = sig,
                                        ![w].bytes = SrcSize(t)]
                  /\ pc' = [pc EXCEPT ![w] =
                              IF opts.perform_mv THEN "delete" ELSE "lock"]
             [] IsSkipBranch(b) ->
                  /\ manifest' =
                       IF opts.use_manifest /\ RecordsSkip(b)
                       THEN SetResult(manifest, t, 0, "skip",
                                      SkipMessage(url))
                       ELSE manifest
                  /\ cur' = [cur EXCEPT ![w].recursion = FALSE,
                                        ![w].src_url = <<>>,
                                        ![w].dst = <<>>,
                                        ![w].sig = sig]
                  /\ pc' = [pc EXCEPT ![w] = "lock"]
             [] b = "count" ->
                  \* self.op_failure_count += 1: the read
                  /\ cur' = [cur EXCEPT ![w].recursion = FALSE,
                                        ![w].src_url = <<>>,
                                        ![w].dst = <<>>,
                                        ![w].sig = sig,
                                        ![w].tmp = op_failure_count,
                                        ![w].msg = text]
                  /\ pc' = [pc EXCEPT ![w] = "count_write"]
                  /\ UNCHANGED manifest
             [] OTHER ->
                  /\ manifest' =
                       IF opts.use_manifest
                       THEN SetResult(manifest, t, 0, "error", text)
                       ELSE manifest
                  /\ pc' = [pc EXCEPT ![w] = "raised"]
                  /\ cur' = [cur EXCEPT ![w].recursion = FALSE,
                                        ![w].src_url = <<>>,
                                        ![w].dst = <<>>,
                                        ![w].sig = sig,
                                        ![w].err = "raise_transfer"]
           /\ outcome' = [outcome EXCEPT ![t] = CopyOutcome(sig, opts)]
  /\ UNCHANGED <<cmdVars, runVars, applyVars, statVars, worldVars,
                 recursion_requested>>

\* self.op_failure_count += 1: the write; then the manifest's error line.
CountWrite(w) ==
  /\ pc[w] = "count_write"
  /\ op_failure_count' = cur[w].tmp + 1
  /\ manifest' = IF opts.use_manifest
                 THEN SetResult(manifest, cur[w].task, 0, "error",
                                RemoveCRLFFromString(ErrorMessage(cur[w].msg)))
                 ELSE manifest
  /\ pc' = [pc EXCEPT ![w] = "lock"]
  /\ cur' = [cur EXCEPT ![w].msg = <<>>]
  /\ UNCHANGED <<cmdVars, runVars, applyVars, worldVars, stats_lock,
                 total_bytes_transferred, recursion_requested, outcome>>

\* The else branch of the try statement: the move deletes the source.
Delete(w) ==
  /\ pc[w] = "delete"
  /\ \/ /\ deleted' = deleted \cup {cur[w].task}
        /\ pc' = [pc EXCEPT ![w] = "lock"]
        /\ UNCHANGED <<del_failed, cur>>
     \/ /\ del_failed' = del_failed \cup {cur[w].task}
        /\ Raise(w, "raise_delete")
        /\ UNCHANGED deleted
  /\ UNCHANGED <<cmdVars, runVars, applyVars, statVars, dst_state,
                 engine_calls, recursion_requested, manifest, outcome>>

\* with self.stats_lock: the lock is taken and the total is read.
Lock(w) ==
  /\ pc[w] = "lock"
  /\ stats_lock = NoVal
  /\ stats_lock' = w
  /\ cur' = [cur EXCEPT ![w].sig = NoVal,
                        ![w].tmp = total_bytes_transferred]
  /\ pc' = [pc EXCEPT ![w] = "add"]
  /\ UNCHANGED <<cmdVars, runVars, applyVars, worldVars, op_failure_count,
                 total_bytes_transferred, recursion_requested, manifest,
                 outcome>>

\* A with statement that does not release the lock when it is left.
Add_KeepsLock(w) ==
  /\ pc[w] = "add"
  /\ total_bytes_transferred' = cur[w].tmp + cur[w].bytes
  /\ pc' = [pc EXCEPT ![w] = "idle"]
  /\ cur' = [cur EXCEPT ![w] = IdleCur]
  /\ UNCHANGED <<cmdVars, runVars, applyVars, worldVars, op_failure_count,
                 stats_lock, recursion_requested, manifest, outcome>>

\* The total is written, the lock released, and CopyFunc returns.
Add(w) ==
  /\ pc[w] = "add"
  /\ total_bytes_transferred' = cur[w].tmp + cur[w].bytes
  /\ stats_lock' = IF stats_lock = w THEN NoVal ELSE stats_lock
  /\ pc' = [pc EXCEPT ![w] = "idle"]
  /\ cur' = [cur EXCEPT ![w] = IdleCur]
  /\ UNCHANGED <<cmdVars, runVars, applyVars, worldVars, op_failure_count,
                 recursion_requested, manifest, outcome>>

----------------------------------------------------------------------------
\* The command entry point: CpCommand.RunCommand

CommandException(e) == [kind |-> "CommandException", err |-> e, count |-> 0]

\* copy_helper_opts = self._ParseOpts()
ParseOpts ==
  /\ rc_pc = "start"
  /\ manifest_created' = Has(sub_opts, "L")
  /\ recursion_requested' = (recursion_requested \/ recursion_of(sub_opts))
  /\ LET e == ParseOptsError(sub_opts, canned_arg, parallel_operations)
     IN  IF e # NoVal
         THEN /\ result' = CommandException(e)
              /\ rc_pc' = "done"
              /\ opts' = FlagsAtRaise(sub_opts)
         ELSE /\ opts' = ParsedOpts(sub_opts, canned_arg, storage_arg)
              /\ rc_pc' = "parsed"
              /\ UNCHANGED result
  /\ UNCHANGED <<cmdVars, applyVars, statVars, worldVars, seek_ahead_iterator,
                 have_existing_dst_container, combined_src_urls, pc, cur,
                 manifest, outcome>>

\* RunCommand without the delegation to CatHelper.
SetupResult_NoDelegation(a, o) ==
  IF o.read_args_from_stdin
  THEN IF a.n # 1 THEN "sources_with_I" ELSE NoVal
  ELSE IF a.n < 2 THEN "wrong_number_of_arguments" ELSE NoVal

\* RunCommand without the check of -P for a stream destination.
SetupResult_NoPosixCheck(a, o) ==
  IF a.dst \in {"stdout", "fifo"}
  THEN "cat"
  ELSE IF o.read_args_from_stdin
       THEN IF a.n # 1 THEN "sources_with_I" ELSE NoVal
       ELSE IF a.n < 2 THEN "wrong_number_of_arguments" ELSE NoVal

\* RunCommand without the check of the arguments given with -I.
SetupResult_NoStdinCheck(a, o) ==
  IF a.dst \in {"stdout", "fifo"}
  THEN IF o.preserve_posix_attrs THEN "posix_with_stream_dst" ELSE "cat"
  ELSE IF o.read_args_from_stdin
       THEN NoVal
       ELSE IF a.n < 2 THEN "wrong_number_of_arguments" ELSE NoVal

\* What RunCommand decides between _ParseOpts and Apply: NoVal to go on,
\* "cat" to delegate to CatHelper, or the error it raises.
SetupResult(a, o) ==
  IF a.dst \in {"stdout", "fifo"}
  THEN IF o.preserve_posix_attrs THEN "posix_with_stream_dst" ELSE "cat"
  ELSE IF o.read_args_from_stdin
       THEN IF a.n # 1 THEN "sources_with_I" ELSE NoVal
       ELSE IF a.n < 2 THEN "wrong_number_of_arguments" ELSE NoVal

\* RunCommand creating a seek-ahead iterator whatever the options.
CreatesSeekAheadIterator_Always(o) == TRUE

\* RunCommand creates a SeekAheadNameExpansionIterator unless the sources
\* are read from stdin, which can be iterated only once.
CreatesSeekAheadIterator(o) == ~o.read_args_from_stdin

\* RunCommand from the reset of the byte total to the call of Apply.
Setup ==
  /\ rc_pc = "parsed"
  /\ total_bytes_transferred' = 0
  /\ LET r == SetupResult(args, opts)
     IN  CASE r = NoVal ->
                /\ seek_ahead_iterator' = CreatesSeekAheadIterator(opts)
                /\ \E k \in CopyObjectsIterator(src_url_strs(args, opts)) :
                     ConstructNameExpansionIteratorDstTupleIterator(k)
                /\ stats_lock' = NoVal
                /\ op_failure_count' = 0
                /\ rc_pc' = "apply"
                /\ UNCHANGED result
           [] r = "cat" ->
                /\ result' = [kind |-> "cat", err |-> NoVal, count |-> 0]
                /\ rc_pc' = "done"
                /\ UNCHANGED <<seek_ahead_iterator, stats_lock,
                               have_existing_dst_container,
                               combined_src_urls, op_failure_count>>
           [] OTHER ->
                /\ result' = CommandException(r)
                /\ rc_pc' = "done"
                /\ UNCHANGED <<seek_ahead_iterator, stats_lock,
                               have_existing_dst_container,
                               combined_src_urls, op_failure_count>>
  /\ UNCHANGED <<cmdVars, applyVars, worldVars, opts, manifest_created, pc,
                 cur, recursion_requested, manifest, outcome>>

\* Apply returns or re-raises; RunCommand reports the failure count.
Finish ==
  /\ rc_pc = "apply"
  /\ exhausted \/ stop # NoVal
  /\ \A w \in Workers : pc[w] = "idle"
  /\ result' =
       IF stop # NoVal
       THEN [kind |-> "propagated", err |-> stop, count |-> 0]
       ELSE IF op_failure_count # 0
            THEN [kind |-> "CommandException",
                  err |-> "could_not_be_transferred",
                  count |-> op_failure_count]
            ELSE [kind |-> "return", err |-> NoVal, count |-> 0]
  /\ rc_pc' = "done"
  /\ UNCHANGED <<cmdVars, applyVars, statVars, worldVars, opts,
                 manifest_created, seek_ahead_iterator,
                 have_existing_dst_container, combined_src_urls, pc, cur,
                 recursion_requested, manifest, outcome>>

----------------------------------------------------------------------------
\* Invocations

\* Statuses a manifest left by an earlier run can hold for a source.
PriorStatuses == {"none", "OK", "skip", "error"}

\* The thread pools: one thread without -m; with -m the pool is sized by
\* the configuration (parallel_thread_count) and may hold a single thread.
Pools(par) == IF par THEN {{"w1"}, {"w1", "w2"}} ELSE {{"w1"}}

\* Invocations: the options, -m, the thread pool and the state of the
\* destination.
Invocations(optSpace, parSpace, poolSpace, dstSpace) ==
  {[so |-> so, par |-> par, pool |-> q, dst |-> d] :
     so \in optSpace, par \in parSpace, q \in poolSpace, d \in dstSpace}

\* The state before RunCommand, for an invocation of invSpace with arguments
\* of argSpace; with -L the manifest file holds records of priorSpace.
InitWith(invSpace, argSpace, priorSpace) ==
  /\ \E inv \in invSpace :
       /\ inv.pool \in Pools(inv.par)
       /\ sub_opts = inv.so
       /\ parallel_operations = inv.par
       /\ pool = inv.pool
       /\ dst_state = inv.dst
  /\ canned_arg \in (IF "a" \in sub_opts THEN {"", "private", "None"}
                     ELSE {""})
  /\ storage_arg \in (IF "s" \in sub_opts THEN {"", "nearline"} ELSE {""})
  /\ args \in argSpace
  /\ rc_pc = "start"
  /\ result = NoResult
  /\ opts = DefaultOpts
  /\ recursion_requested = FALSE
  /\ manifest \in
       (IF "L" \in sub_opts
        THEN {[t \in Tasks |-> PriorRecord(t, f[t])] :
                f \in [Tasks -> priorSpace]}
        ELSE {[t \in Tasks |-> NoRecord]})
  /\ manifest_created = FALSE
  /\ seek_ahead_iterator = FALSE
  /\ have_existing_dst_container = FALSE
  /\ combined_src_urls = <<>>
  /\ next_task = 1
  /\ exhausted = FALSE
  /\ stop = NoVal
  /\ pc = [w \in Workers |-> "idle"]
  /\ cur = [w \in Workers |-> IdleCur]
  /\ stats_lock = NoVal
  /\ op_failure_count = 0
  /\ total_bytes_transferred = 0
  /\ deleted = {}
  /\ del_failed = {}
  /\ engine_calls = {}
  /\ outcome = [t \in Tasks |-> NoVal]

OneThread == {{"w1"}}
TwoThreads == {{"w1", "w2"}}
TwoArgs == {[n |-> 2, dst |-> "url"]}

\* cp and mv runs: every combination of -M, -c and -n with one thread, -M
\* and -c with -m and two threads to a bucket, and moves with a manifest
\* left by an earlier run (-L) and with -U, without and with -c.
Init ==
  InitWith(Invocations(SUBSET {"M", "c", "n"}, BOOLEAN, OneThread,
                       {"cloud", "dir", "missing"})
             \cup Invocations(SUBSET {"M", "c"}, {TRUE}, TwoThreads,
                              {"cloud"})
             \cup Invocations({{"L", "M", "U"}, {"L", "M", "U", "c"}},
                              {FALSE}, OneThread, {"cloud"}),
           TwoArgs, {"none", "OK"})

\* cp and mv runs with and without -r to a bucket, a directory and a name
\* that does not exist: every combination of -M, -r and -c, and -R without
\* and with -M, with one thread, and a move with two threads.
InitNaming ==
  InitWith(Invocations(SUBSET {"M", "r", "c"} \cup {{"R"}, {"M", "R"}},
                       BOOLEAN, OneThread, {"cloud", "dir", "missing"})
             \cup Invocations({{"M", "c"}}, {TRUE}, TwoThreads, {"cloud"}),
           TwoArgs, PriorStatuses)

\* Runs with a manifest whose options conflict (-A with -m, -j with -z,
\* -p with -a), with and without -P, and a move with a manifest that
\* continues on errors.
InitValidation ==
  InitWith(Invocations({{"L", "A"}, {"L", "P", "A"}, {"A"}}, {TRUE},
                       OneThread, {"cloud"})
             \cup Invocations({{"L", "j", "z"}, {"L", "P", "p", "a"}},
                              {FALSE}, OneThread, {"cloud"})
             \cup Invocations({{"L", "M", "c"}}, {FALSE}, OneThread,
                              {"cloud", "missing"}),
           TwoArgs, PriorStatuses)

OneArg == {[n |-> 1, dst |-> "url"]}

\* Runs that read their sources from stdin (-I) and runs that name them,
\* with one argument and with two, as copies and as moves that continue on
\* errors, with one thread.
InitStream ==
  InitWith(Invocations({{}, {"I"}, {"M", "c"}, {"I", "M", "c"}}, BOOLEAN,
                       OneThread, {"cloud", "missing"}),
           OneArg \cup TwoArgs, PriorStatuses)

\* The argument lists: one to three arguments (the command takes at least
\* one), the last one a URL, "-" or a named pipe.
AnyArgs == [n : 1..3, dst : {"url", "stdout", "fifo"}]

\* Runs with every argument list, with and without -I and -P, and a move
\* that continues on errors, with one thread.
InitArgs ==
  InitWith(Invocations({{}, {"P"}, {"I"}, {"I", "P"}, {"M", "c"}}, {FALSE},
                       OneThread, {"cloud", "missing"}),
           AnyArgs, PriorStatuses)

\* Moves with every argument list, without and with a manifest, -c and -P,
\* with one thread.
InitCat ==
  InitWith(Invocations({{"M"}, {"M", "P"}, {"L", "M"}, {"L", "M", "c"}},
                       {FALSE}, OneThread, {"cloud", "missing"}),
           AnyArgs, {"none", "OK"})

\* Runs with -P, without and with a manifest, with one thread, and with -m
\* a run with -P and a move with a manifest that continues on errors.
InitPreflight ==
  InitWith(Invocations({{"P"}, {"L", "P"}}, {FALSE}, OneThread,
                       {"cloud", "missing"})
             \cup Invocations({{"P"}, {"L", "M", "c"}}, {TRUE}, OneThread,
                              {"cloud"}),
           TwoArgs, PriorStatuses)

\* Copies and moves of several sources by two threads to a local
\* destination that does not exist, in continue mode.
InitRace ==
  InitWith(Invocations({{"c"}, {"M", "c"}}, {TRUE}, TwoThreads, {"missing"}),
           TwoArgs, PriorStatuses)

\* Runs with -s, naming a storage class and with an empty argument,
\* without a manifest and as a move with a manifest that continues on
\* errors, with one thread.
InitStorageClass ==
  InitWith(Invocations({{"s"}, {"L", "M", "s", "c"}},
                       {FALSE}, OneThread, {"cloud", "dir", "missing"}),
           TwoArgs, {"none", "OK"})

\* Runs with and without -U, in fail-fast and in continue mode, and a move
\* that continues on errors, with one thread.
InitUnsupported ==
  InitWith(Invocations({{}, {"c"}, {"U"}, {"U", "c"}, {"M", "c"}}, {FALSE},
                       OneThread, {"cloud", "missing"}),
           TwoArgs, PriorStatuses)

Next ==
  \/ ParseOpts
  \/ Setup
  \/ Exhaust
  \/ Finish
  \/ \E w \in Workers :
       \/ Dispatch(w)
       \/ Preflight(w)
       \/ MakeDirs(w)
       \/ TransferEnd(w)
       \/ CountWrite(w)
       \/ Delete(w)
       \/ Lock(w)
       \/ Add(w)
       \/ ApplyOnException(w)
       \/ HandlerWrite(w)

Spec == Init /\ [][Next]_vars

SpecNaming == InitNaming /\ [][Next]_vars

SpecStream == InitStream /\ [][Next]_vars

SpecArgs == InitArgs /\ [][Next]_vars

SpecCat == InitCat /\ [][Next]_vars

SpecUnsupported == InitUnsupported /\ [][Next]_vars

SpecStorageClass == InitStorageClass /\ [][Next]_vars

SpecRace == InitRace /\ [][Next]_vars

SpecPreflight == InitPreflight /\ [][Next]_vars

SpecValidation == InitValidation /\ [][Next]_vars

\* Runs that continue on errors (-c), copies and moves, with one thread and
\* with two.
InitContinue ==
  InitWith(Invocations({{"c"}, {"M", "c"}}, BOOLEAN, OneThread,
                       {"cloud", "missing"})
             \cup Invocations({{"c"}}, {TRUE}, TwoThreads, {"cloud"}),
           TwoArgs, PriorStatuses)

\* Every thread that can take a step eventually takes one, and every call
\* of the transfer engine and of the storage API returns or raises.
SpecContinue == InitContinue /\ [][Next]_vars /\ WF_vars(Next)

\* cp without options and a move that continues on errors with one thread,
\* to a bucket and to a directory that does not exist; cp with -m, without
\* and with -c, with two threads, to a bucket.
InitLock ==
  InitWith(Invocations({{}, {"M", "c"}}, {FALSE}, OneThread,
                       {"cloud", "missing"})
             \cup Invocations({{}, {"c"}}, {TRUE}, TwoThreads, {"cloud"}),
           TwoArgs, PriorStatuses)

\* Every thread that can take a step eventually takes one, and every call
\* of the transfer engine and of the storage API returns or raises.
SpecLock == InitLock /\ [][Next]_vars /\ WF_vars(Next)

\* Runs without -c: copies and moves without -m, and copies with -m by
\* two threads; and a move that continues on errors with one thread.
InitFailFast ==
  InitWith(Invocations({{}, {"M"}, {"M", "c"}}, {FALSE}, OneThread,
                       {"cloud", "missing"})
             \cup Invocations({{}}, {TRUE}, TwoThreads, {"cloud"}),
           TwoArgs, PriorStatuses)

\* Every thread that can take a step eventually takes one, and every call
\* of the transfer engine and of the storage API returns or raises.
SpecFailFast == InitFailFast /\ [][Next]_vars /\ WF_vars(Next)

\* Runs with a manifest (-L) left by an earlier run, with one thread.
InitManifest ==
  InitWith(Invocations({{"L"}, {"L", "c"}, {"L", "n"}, {"L", "M", "c"}},
                       {FALSE}, OneThread, {"cloud"})
             \cup Invocations({{"L", "c", "n"}}, {TRUE}, OneThread,
                              {"missing"}),
           TwoArgs, PriorStatuses)

SpecManifest == InitManifest /\ [][Next]_vars

\* Runs with the options _ParseOpts checks against each other, with one
\* thread, and a move that continues on errors.
InitOpts ==
  InitWith(Invocations(SUBSET {"p", "a", "A", "j", "J", "z", "Z"}, BOOLEAN,
                       OneThread, {"cloud"})
             \cup Invocations({{"M", "c"}}, {FALSE}, OneThread, {"missing"}),
           TwoArgs, PriorStatuses)

SpecOpts == InitOpts /\ [][Next]_vars

----------------------------------------------------------------------------
\* Properties

\* Tasks handed to a worker so far.
Handled == {t \in Tasks : t < next_task}

\* C1, as stated: in a move, the source of a task CopyFunc is done with is
\* deleted if and only if the copy outcome is Success.
C1_DeletedIffSuccess ==
  opts.perform_mv =>
    \A t \in Tasks :
      Ended(t) => (t \in deleted <=> outcome[t] = "Success")

\* C1, amended: in a move, the deletion of a source is attempted only
\* after its copy succeeded; for a task CopyFunc is done with, the deletion
\* was attempted if and only if the copy outcome is Success, and the source
\* is deleted if and only if the outcome is Success and the deletion did
\* not raise; it is never deleted for a skipped, failed or dropped task.
C1_DeletedIffSuccessAndDeletionPassed ==
  opts.perform_mv =>
    \A t \in Tasks :
      /\ t \in deleted \cup del_failed => outcome[t] = "Success"
      /\ Ended(t) =>
           /\ outcome[t] = "Success" <=> t \in deleted \cup del_failed
           /\ t \in deleted <=>
                (outcome[t] = "Success" /\ t \notin del_failed)

\* A move with a manifest is done with a source that the manifest records
\* as done, dropped and still there, and PerformCopy has just raised
\* SkipUnsupportedObjectError for the other source, which is still there.
C1_Witness ==
  /\ opts.perform_mv /\ opts.use_manifest
  /\ \E t \in Tasks :
       Ended(t) /\ outcome[t] = "AlreadyDone" /\ t \notin deleted
  /\ \E w \in Workers :
       /\ pc[w] = "lock" /\ cur[w].sig = "SkipUnsupportedObjectError"
       /\ outcome[cur[w].task] = "Skipped" /\ cur[w].task \notin deleted

\* The exceptions that leave CopyFunc before the call of PerformCopy.
ErrorsAheadOfEngine ==
  {"raise_provider", "raise_posix_stream", "raise_parallel_stream",
   "raise_insist", "raise_makedirs", "raise_dirfile", "raise_same",
   "raise_generation", "raise_storage_class", "raise_os_stat",
   "raise_orphan"}

\* C2, as stated: with a manifest, the transfer engine is never invoked for
\* a source the loaded manifest records as OK or skip, and it is invoked
\* for every source CopyFunc is done with that is recorded as error or not
\* recorded.
C2_ManifestResume ==
  opts.use_manifest =>
    \A t \in Tasks :
      /\ manifest[t].prior \in {"OK", "skip"} => t \notin engine_calls
      /\ (Ended(t) /\ manifest[t].prior \in {"error", "none"}) =>
           t \in engine_calls

\* C2, amended: with a manifest, the transfer engine is never invoked for a
\* source the loaded manifest records as OK or skip; a source recorded as
\* error or not recorded is never dropped as already done, and CopyFunc
\* calls the engine for it unless the source is a placeholder object, which
\* is dropped, or one of the checks ahead of the call raises.
C2_ManifestResumeAfterChecks ==
  /\ [](opts.use_manifest =>
          \A t \in Tasks :
            /\ manifest[t].prior \in {"OK", "skip"} => t \notin engine_calls
            /\ manifest[t].prior \in {"error", "none"} =>
                 /\ outcome[t] # "AlreadyDone"
                 /\ Ended(t) =>
                      \/ t \in engine_calls
                      \/ outcome[t] = "NoOp"
                      \/ outcome[t] = "Failed" /\ t \notin engine_calls)
  /\ [][opts.use_manifest =>
          \A w \in Workers :
            (/\ pc[w] \in {"preflight", "makedirs"} /\ pc'[w] # pc[w]
             /\ manifest[cur[w].task].prior \in {"error", "none"})
            => \/ pc'[w] = "transfer" /\ cur[w].task \in engine_calls'
               \/ pc[w] = "preflight" /\ pc'[w] = "makedirs"
               \/ /\ pc'[w] = "idle" /\ cur[w].info.placeholder
                  /\ outcome'[cur[w].task] = "NoOp"
               \/ /\ pc'[w] = "raised"
                  /\ cur'[w].err \in ErrorsAheadOfEngine
                  /\ cur[w].task \notin engine_calls']_vars

\* A run with a manifest is done with a source recorded as OK, which it
\* dropped, and a source recorded as error, which it handed to the engine.
C2_Witness ==
  /\ opts.use_manifest
  /\ \E t \in Tasks :
       Ended(t) /\ manifest[t].prior = "OK" /\ outcome[t] = "AlreadyDone"
  /\ \E t \in Tasks :
       Ended(t) /\ manifest[t].prior = "error" /\ t \in engine_calls

\* Tasks whose transfer failed (PerformCopy raised an error that is no skip).
TransferFailures ==
  {t \in Handled : t \in engine_calls /\ outcome[t] = "Failed"}

\* No exception left CopyFunc: every failure is a transfer failure.
OnlyTransferFailures ==
  /\ del_failed = {}
  /\ \A t \in Handled : outcome[t] = "Failed" => t \in engine_calls

\* C3, as stated: in continue mode, when the run is over and K tasks ended
\* in a transfer failure, op_failure_count is K; RunCommand raises the
\* failure naming K when K > 0 and returns 0 when K = 0.
C3_CountEqualsFailures ==
  (Completed /\ opts.continue_on_error /\ OnlyTransferFailures) =>
    LET K == Cardinality(TransferFailures)
    IN  /\ op_failure_count = K
        /\ K > 0 => (result.kind = "CommandException" /\ result.count = K)
        /\ K = 0 => result.kind = "return"

\* C4, as stated: in a move, a failed deletion after a successful copy ends
\* the run with the error propagated, with and without continue-on-error.
C4_DeletionFailureFatal ==
  (Completed /\ opts.perform_mv /\ del_failed # {}) =>
    result.kind = "propagated"

\* The errors the specification calls ConfigurationError.
ConfigurationErrors ==
  {"raise_provider", "raise_posix_stream", "raise_parallel_stream",
   "raise_storage_class", "raise_generation"}

\* C5, as stated: a ConfigurationError that leaves CopyFunc always stops
\* the run, also in continue mode.
C5_ConfigurationErrorTerminal ==
  [][\A w \in Workers :
       (/\ pc[w] = "raised" /\ pc'[w] # "raised"
        /\ cur[w].err \in ConfigurationErrors)
       => stop' # NoVal]_vars

\* The option combinations of C6: -A with -m, -p with a canned ACL, and
\* -j/-J with -z/-Z.
ConflictingFlags ==
  \/ "A" \in sub_opts /\ parallel_operations
  \/ "p" \in sub_opts /\ "a" \in sub_opts /\ canned_arg # ""
  \/ ({"j", "J"} \cap sub_opts # {}) /\ ({"z", "Z"} \cap sub_opts # {})

\* C6: with one of the three conflicting option combinations RunCommand
\* fails in _ParseOpts with the error of that combination; no task is ever
\* handed out, no worker runs CopyFunc, the engine is never called.
C6_ConflictsFailValidation ==
  ConflictingFlags =>
    /\ rc_pc \in {"start", "done"}
    /\ rc_pc = "done" =>
         /\ result.kind = "CommandException"
         /\ result.err \in {"p_and_a", "A_and_m", "jJ_and_zZ"}
    /\ next_task = 1 /\ ~exhausted /\ ~seek_ahead_iterator
    /\ \A w \in Workers : pc[w] = "idle"
    /\ engine_calls = {} /\ deleted = {}
    /\ \A t \in Tasks : outcome[t] = NoVal

\* RunCommand has failed on -A with -m.
C6_Witness ==
  /\ ConflictingFlags
  /\ rc_pc = "done"
  /\ result = CommandException("A_and_m")

\* A skip signal under the options of the run.
IsSkipSignal(sig) == sig # NoVal /\ CopyOutcome(sig, opts) = "Skipped"

\* C7: no step of a worker whose transfer ended in a skip signal changes
\* op_failure_count or stops the run, in fail-fast and in continue mode;
\* and a run in which every task succeeded, was skipped or was dropped
\* returns 0.
C7_SkipsAreBenign ==
  /\ [][\A w \in Workers :
          (/\ pc'[w] # pc[w]
           /\ IsSkipSignal(cur[w].sig) \/ IsSkipSignal(cur'[w].sig))
          => (op_failure_count' = op_failure_count /\ stop' = stop)]_vars
  /\ []((/\ Completed
         /\ del_failed = {}
         /\ \A t \in Handled :
              outcome[t] \in {"Success", "Skipped", "NoOp", "AlreadyDone"})
        => result.kind = "return")

\* A fail-fast run has returned 0 after the copy of one source, and after
\* SkipUnsupportedObjectError for the other, recorded as a skip.
C7_Witness ==
  /\ Completed /\ ~opts.continue_on_error /\ opts.use_manifest
  /\ result.kind = "return" /\ op_failure_count = 0
  /\ \E t \in Handled : outcome[t] = "Skipped" /\ manifest[t].status = "skip"
  /\ \E t \in Handled : outcome[t] = "Success"

\* C8, as stated: with a manifest, a task whose transfer ended in a skip
\* signal ends with its record at status skip and 0 bytes.
C8_SkipsRecorded ==
  opts.use_manifest =>
    \A t \in Tasks :
      (Ended(t) /\ outcome[t] = "Skipped") =>
        (manifest[t].status = "skip" /\ manifest[t].bytes = 0)

\* C9, as stated, for the sources handed to the engine: with a manifest,
\* the task ends with exactly one result line, of status OK, skip or error,
\* and an OK record carries the bytes transferred.
C9_OneTerminalStatus ==
  opts.use_manifest =>
    \A t \in Tasks :
      (Ended(t) /\ t \in engine_calls) =>
        /\ manifest[t].lines = 1
        /\ manifest[t].status \in {"OK", "skip", "error"}
        /\ manifest[t].status = "OK" => manifest[t].bytes = SrcSize(t)

\* C10, as stated: a worker between the read and the write of a shared
\* statistic holds stats_lock.
C10_UpdatesUnderLock ==
  \A w \in Workers :
    pc[w] \in {"count_write", "handler_write", "add"} => stats_lock = w

\* Sum of the bytes PerformCopy returned for the tasks of S.
RECURSIVE SumBytes(_)
SumBytes(S) ==
  IF S = {} THEN 0
  ELSE LET t == CHOOSE x \in S : TRUE IN SrcSize(t) + SumBytes(S \ {t})

\* C11, as stated: when Apply has returned and RunCommand reads the total,
\* total_bytes_transferred is the sum of the bytes of the tasks whose copy
\* outcome is Success; skipped and failed tasks contribute 0.
C11_TotalIsSumOfSuccesses ==
  (Completed /\ result.kind # "propagated") =>
    total_bytes_transferred =
      SumBytes({t \in Handled : outcome[t] = "Success"})

\* Task t failed: its copy outcome is Failed, or the deletion of its source
\* raised.
TaskFailed(t) == outcome[t] = "Failed" \/ t \in del_failed

C13_ContinueAttemptsAll ==
  /\ [](opts.continue_on_error =>
          /\ stop = NoVal
          /\ rc_pc = "done" =>
               /\ exhausted
               /\ \A t \in Handled : Ended(t) /\ outcome[t] # NoVal
               /\ IF \E t \in Handled : TaskFailed(t)
                  THEN /\ result.kind = "CommandException"
                       /\ result.count = op_failure_count
                       /\ op_failure_count > 0
                  ELSE /\ result.kind = "return"
                       /\ op_failure_count = 0)
  /\ \A t \in Tasks : (t \in Handled) ~> Ended(t)
  /\ <>(rc_pc = "done")

\* A run with -c has ended after a failed transfer of its first task and a
\* copy of its second, with the count in the CommandException.
C13_Witness ==
  /\ Completed /\ opts.continue_on_error
  /\ 1 \in engine_calls /\ outcome[1] = "Failed"
  /\ next_task > 2 /\ outcome[2] = "Success"
  /\ result.kind = "CommandException" /\ result.count = 1

\* The step in which worker w leaves the head of CopyFunc with a task whose
\* expanded source is a placeholder object.
PlaceholderStep(w) ==
  pc[w] = "preflight" /\ pc'[w] # "preflight" /\ cur[w].info.placeholder

\* What a dropped task leaves behind: no call of the engine, no deletion,
\* the manifest record as loaded.
NothingDone(t) ==
  /\ t \notin engine_calls
  /\ t \notin deleted \cup del_failed
  /\ manifest[t].status = manifest[t].prior /\ manifest[t].lines = 0

\* C14, as stated: a task whose expanded source is a placeholder object
\* always ends as a no-op.
C14_PlaceholderAlwaysNoOp ==
  [][\A w \in Workers :
       PlaceholderStep(w) =>
         (pc'[w] = "idle" /\ outcome'[cur[w].task] = "NoOp")]_vars

\* C14, amended: a task whose expanded source is a placeholder object ends
\* as a no-op unless one of the checks before the placeholder filter raises
\* (provider-only source, destination of a multi-source request that names
\* no container). As a no-op the task returns at once: the engine is not
\* called, the manifest is not touched, the statistics are unchanged and in a
\* move nothing is deleted.
C14_PlaceholderNoOpAfterChecks ==
  /\ [][\A w \in Workers :
          PlaceholderStep(w) =>
            \/ /\ pc'[w] = "raised"
               /\ cur'[w].err \in {"raise_provider", "raise_insist"}
               /\ outcome'[cur[w].task] = "Failed"
            \/ /\ pc'[w] = "idle"
               /\ outcome'[cur[w].task] = "NoOp"
               /\ manifest' = manifest
               /\ engine_calls' = engine_calls
               /\ deleted' = deleted /\ del_failed' = del_failed
               /\ op_failure_count' = op_failure_count
               /\ total_bytes_transferred' = total_bytes_transferred]_vars
  /\ [](\A t \in Tasks : outcome[t] = "NoOp" => NothingDone(t))

\* A move with a manifest is done with a placeholder task: a no-op.
C14_Witness ==
  /\ opts.perform_mv /\ opts.use_manifest
  /\ \E t \in Handled : Ended(t) /\ outcome[t] = "NoOp" /\ NothingDone(t)

\* The bytes of task t are part of the total (the byte counts are distinct
\* powers of two).
InTotal(t) == (total_bytes_transferred \div SrcSize(t)) % 2 = 1

\* C15: whenever the source and the computed destination of a task are the
\* same, for a local and for a cloud destination, the naming checks end in
\* the same-file error; the task that raised it has failed, the engine was
\* not called for it, and a task the engine was not called for has no
\* manifest entry of this run, no bytes in the total and no deleted source.
C15_SameFileFails ==
  /\ \A d \in NamingCases(dst_state = "cloud", opts) :
       d.same => NamingResult(d, opts, dst_state = "cloud") = "raise_same"
  /\ \A w \in Workers :
       cur[w].err = "raise_same" =>
         /\ outcome[cur[w].task] = "Failed"
         /\ cur[w].task \notin engine_calls
         /\ cur[w].bytes = 0
  /\ \A t \in Tasks :
       t \notin engine_calls => (NothingDone(t) /\ ~InTotal(t))

\* In a move with a manifest, a task has just failed with the same-file
\* error.
C15_Witness ==
  /\ opts.perform_mv /\ opts.use_manifest
  /\ \E w \in Workers : pc[w] = "raised" /\ cur[w].err = "raise_same"

\* Worker w computes the destination of its task and calls the engine.
NamedStep(w) == pc[w] \in {"preflight", "makedirs"} /\ pc'[w] = "transfer"

\* The recursion flag of a task by the task and the options alone: -r or
\* -R, or the task being the move of a container.
RecursionByTask(i) ==
  recursion_of(sub_opts) \/ (opts.perform_mv /\ i.names_container)

C17_ValidationOnlyFails ==
  (/\ rc_pc = "done"
   /\ ParseOptsError(sub_opts, canned_arg, parallel_operations) # NoVal) =>
    /\ result =
         CommandException(ParseOptsError(sub_opts, canned_arg,
                                         parallel_operations))
    /\ ~manifest_created
    /\ ~seek_ahead_iterator
    /\ next_task = 1 /\ engine_calls = {} /\ deleted = {}

\* The conflicts of the options given, one by one.
AclConflict == {"p", "a"} \subseteq sub_opts /\ canned_arg # ""
VersionsConflict == "A" \in sub_opts /\ parallel_operations
GzipModeConflict ==
  ({"j", "J"} \cap sub_opts # {}) /\ ({"z", "Z"} \cap sub_opts # {})
WireFormConflict == {"j", "J"} \subseteq sub_opts
LocalFormConflict == {"z", "Z"} \subseteq sub_opts

\* C18: once _ParseOpts has run, -j with -J alone has failed with the error
\* naming -j and -J, and -z with -Z alone with the error naming -z and -Z;
\* of several conflicts the one reported is the first in the order -p/-a,
\* -A/-m, wire/local gzip, extension list/all files.
C18_GzipFormConflictAndOrder ==
  LET err(e) == rc_pc = "done" /\ result = CommandException(e)
  IN  rc_pc # "start" =>
        /\ AclConflict => err("p_and_a")
        /\ (~AclConflict /\ VersionsConflict) => err("A_and_m")
        /\ (~AclConflict /\ ~VersionsConflict /\ GzipModeConflict) =>
             err("jJ_and_zZ")
        /\ (~AclConflict /\ ~VersionsConflict /\ ~GzipModeConflict) =>
             /\ WireFormConflict => err("j_and_J")
             /\ LocalFormConflict => err("z_and_Z")

\* -j, -J and -A were given without -m: the run has failed on -j with -J.
C18_Witness ==
  /\ sub_opts = {"A", "j", "J"} /\ ~parallel_operations
  /\ rc_pc = "done" /\ result = CommandException("j_and_J")

\* C19, as stated: what _ParseOpts built, the options and the recursion
\* flag, is never changed after _ParseOpts: no step of a worker and no step
\* of the dispatcher assigns to it.
C19_ConfigurationNeverChanges ==
  [][rc_pc # "start" =>
       /\ opts' = opts
       /\ recursion_requested' = recursion_requested]_vars

\* RunCommand has called Apply.
Applied == rc_pc = "apply" \/ Completed

\* C20: a run that reads its sources from stdin never has a seek-ahead
\* iterator, before Apply, during it and after it; a run that names its
\* sources has created one by the time it calls Apply, and no run has one
\* before that.
C20_SeekAheadOnlyWithoutStream ==
  /\ "I" \in sub_opts => ~seek_ahead_iterator
  /\ ("I" \notin sub_opts /\ Applied) => seek_ahead_iterator
  /\ ~Applied => ~seek_ahead_iterator

\* A run with -I has handed out and copied a source and has ended, and no
\* seek-ahead iterator was created.
C20_Witness ==
  /\ opts.read_args_from_stdin /\ args.n = 1
  /\ Completed /\ engine_calls # {}
  /\ ~seek_ahead_iterator

\* The copy pipeline has not started: no iterator, no task, no copy.
NoPipeline ==
  /\ ~seek_ahead_iterator /\ next_task = 1 /\ ~exhausted
  /\ engine_calls = {} /\ deleted = {}
  /\ \A w \in Workers : pc[w] = "idle"

\* RunCommand is past the checks that come before Apply.
PastSetup == rc_pc \notin {"start", "parsed"}

\* C21: when the last argument is "-" or a named pipe, RunCommand ends
\* without running the copy pipeline: with -P it fails with the error about
\* POSIX attributes and a stream, otherwise it returns what CatHelper
\* returns.
C21_StreamDestinationDelegates ==
  (PastSetup /\ args.dst \in {"stdout", "fifo"}) =>
    /\ rc_pc = "done"
    /\ NoPipeline
    /\ result = IF "P" \in sub_opts
                THEN CommandException("posix_with_stream_dst")
                ELSE [kind |-> "cat", err |-> NoVal, count |-> 0]

\* A copy with -P to a named pipe has failed.
C21_Witness ==
  /\ args.dst = "fifo" /\ "P" \in sub_opts
  /\ rc_pc = "done"
  /\ result = CommandException("posix_with_stream_dst")

\* The argument list has the wrong shape: sources given with -I, or no
\* source given without -I.
WrongShape ==
  IF "I" \in sub_opts THEN args.n > 1 ELSE args.n < 2

ShapeError ==
  CommandException(IF "I" \in sub_opts THEN "sources_with_I"
                   ELSE "wrong_number_of_arguments")

\* C22, as stated: an argument list of the wrong shape fails with the
\* error of its shape before any task runs, for every destination.
C22_ShapeEnforcedForEveryDestination ==
  (PastSetup /\ WrongShape) =>
    (rc_pc = "done" /\ result = ShapeError /\ NoPipeline)

\* C22: an argument list of the wrong shape fails with the error of its
\* shape before any task runs when the destination is neither "-" nor a
\* named pipe; with "-" or a named pipe RunCommand ends before it looks at
\* the shape, and no shape error is raised.
C22_ShapeEnforcedUnlessStreamDestination ==
  (PastSetup /\ WrongShape) =>
    /\ rc_pc = "done" /\ NoPipeline
    /\ IF args.dst = "url" THEN result = ShapeError
       ELSE result # ShapeError

\* A run with -I and a source argument to a URL has failed on its shape.
C22_Witness ==
  /\ "I" \in sub_opts /\ args.n = 2 /\ args.dst = "url"
  /\ rc_pc = "done" /\ result = CommandException("sources_with_I")

\* The position of a step in CopyFunc.
StepRank(p) ==
  CASE p = "preflight" -> 1
    [] p = "makedirs" -> 2
    [] p = "transfer" -> 3
    [] p = "count_write" -> 4
    [] p = "delete" -> 4
    [] p = "lock" -> 5
    [] p = "add" -> 6
    [] OTHER -> 0

InCopyFunc(p) == StepRank(p) > 0

\* C23: a task goes through CopyFunc forwards only, from the checks to the
\* transfer, to the deletion of the source, to the update of the total.
\* The engine is called only by the step that passed the last check, for
\* the task of that step; a source is deleted only by a worker past a
\* transfer that ended in success, in a move; during Apply the total changes
\* only with the step that leaves CopyFunc, and a worker at the update has
\* its transfer behind it and, after a copy of a move, its source deleted.
C23_StepsInOrder ==
  /\ [][\A w \in Workers :
          /\ (InCopyFunc(pc[w]) /\ InCopyFunc(pc'[w]) /\ pc'[w] # pc[w]) =>
               StepRank(pc'[w]) > StepRank(pc[w])
          /\ pc[w] = "add" => pc'[w] \in {"add", "idle"}]_vars
  /\ [][engine_calls' # engine_calls =>
          \E w \in Workers :
            /\ NamedStep(w)
            /\ engine_calls' = engine_calls \cup {cur[w].task}]_vars
  /\ [][(deleted' # deleted \/ del_failed' # del_failed) =>
          \E w \in Workers :
            /\ pc[w] = "delete" /\ pc'[w] # "delete"
            /\ opts.perform_mv
            /\ cur[w].task \in engine_calls
            /\ outcome[cur[w].task] = "Success"
            /\ deleted' \cup del_failed' =
                 deleted \cup del_failed \cup {cur[w].task}]_vars
  /\ [][(rc_pc = "apply" /\
         total_bytes_transferred' # total_bytes_transferred) =>
          \E w \in Workers : pc[w] = "add" /\ pc'[w] = "idle"]_vars
  /\ [](\A w \in Workers :
          pc[w] \in {"lock", "add"} =>
            /\ outcome[cur[w].task] \notin {NoVal, "NoOp", "AlreadyDone"}
            /\ cur[w].task \in engine_calls
            /\ (opts.perform_mv /\ outcome[cur[w].task] = "Success") =>
                 cur[w].task \in deleted)

\* In a move, a worker is at the write of the total after its task was
\* copied and its source deleted, and the total does not hold the bytes yet.
C23_Witness ==
  \E w \in Workers :
    /\ pc[w] = "add" /\ opts.perform_mv
    /\ cur[w].task \in engine_calls \cap deleted
    /\ outcome[cur[w].task] = "Success"
    /\ ~InTotal(cur[w].task)

\* Worker w runs the head of CopyFunc.
PreflightStep(w) == pc[w] = "preflight" /\ pc'[w] # "preflight"

\* The step of worker w ends CopyFunc with exception e.
RaisesIn(w, e) == pc'[w] = "raised" /\ cur'[w].err = e

\* The step of worker w returns from CopyFunc and leaves outcome oc, with
\* the manifest and the recursion flag as they were.
DropsIn(w, oc) ==
  /\ pc'[w] = "idle" /\ outcome'[cur[w].task] = oc
  /\ manifest' = manifest
  /\ recursion_requested' = recursion_requested

\* C24: the head of CopyFunc decides by the first of its steps that
\* applies: a provider-only source, -P with a stream, -m with a stream, a
\* multi-source destination that is no container, a placeholder, a source
\* the manifest has as done, then the recursion flag of a move of a
\* container and the creation of a missing destination directory. A task
\* with one of the four errors fails also when it is a placeholder, and a
\* placeholder is dropped as a no-op also when the manifest has it as done.
C24_PreflightInOrder ==
  [][\A w \in Workers :
       PreflightStep(w) =>
         LET i == cur[w].info
             t == cur[w].task
             done == opts.use_manifest /\ WasSuccessful(manifest, t)
         IN  IF i.src = "provider" THEN RaisesIn(w, "raise_provider")
             ELSE IF opts.preserve_posix_attrs /\ i.src = "stream"
                  THEN RaisesIn(w, "raise_posix_stream")
             ELSE IF parallel_operations /\ i.src = "stream"
                  THEN RaisesIn(w, "raise_parallel_stream")
             ELSE \/ i.multi /\ RaisesIn(w, "raise_insist")
                  \/ i.placeholder /\ DropsIn(w, "NoOp")
                  \/ ~i.placeholder /\ done /\ DropsIn(w, "AlreadyDone")
                  \/ /\ ~i.placeholder /\ ~done
                     /\ recursion_requested' =
                          (recursion_requested
                             \/ (opts.perform_mv /\ i.names_container))
                     /\ IF dst_state = "missing" /\ i.multi
                        THEN pc'[w] = "makedirs"
                        ELSE \/ pc'[w] = "transfer"
                             \/ /\ pc'[w] = "raised"
                                /\ cur'[w].err \in
                                     {"raise_dirfile", "raise_same",
                                      "raise_generation",
                                      "raise_storage_class",
                                      "raise_os_stat",
                                      "raise_orphan"}]_vars

\* A placeholder that the manifest has as done was dropped as a no-op.
C24_Witness ==
  /\ opts.use_manifest
  /\ \E t \in Handled :
       /\ WasSuccessful(manifest, t)
       /\ outcome[t] = "NoOp" /\ Ended(t)

\* The errors the head of CopyFunc raises before it looks at the move.
PreflightErrors ==
  {"raise_provider", "raise_posix_stream", "raise_parallel_stream",
   "raise_insist"}

\* Worker w takes its task past the checks for a placeholder and for the
\* manifest.
PassesDrops(w) ==
  /\ PreflightStep(w)
  /\ pc'[w] # "idle"
  /\ ~(pc'[w] = "raised" /\ cur'[w].err \in PreflightErrors)

\* C25: in a move, the step that takes a task whose source names a
\* container past the checks for a placeholder and for the manifest leaves
\* the recursion flag set; no step resets the flag; and every computation
\* of a destination that finds the flag set, the one of that task and the
\* ones of the tasks after it, is handed recursion = TRUE.
C25_RecursionStaysForced ==
  /\ [][\A w \in Workers :
          (PassesDrops(w) /\ opts.perform_mv /\ cur[w].info.names_container)
            => /\ recursion_requested'
               /\ pc'[w] = "transfer" => cur'[w].recursion]_vars
  /\ [][recursion_requested => recursion_requested']_vars
  /\ [][\A w \in Workers :
          (NamedStep(w) /\ recursion_requested) => cur'[w].recursion]_vars

\* In a move without -r the second task, which names no container, is
\* copied with recursion = TRUE after the first task has set the flag.
C25_Witness ==
  /\ opts.perform_mv /\ ~recursion_of(sub_opts)
  /\ \E w \in Workers :
       /\ pc[w] = "transfer" /\ cur[w].task = 2
       /\ cur[w].recursion
       /\ cur[w].dst # <<"dst", "a", "b", "c">>

\* Worker w runs os.makedirs and what follows it.
MakeDirsStep(w) == pc[w] = "makedirs" /\ pc'[w] # "makedirs"

\* C26: a worker gets to os.makedirs only for a task of several sources
\* that found the local destination missing. When the destination exists by
\* the time of the call, because another worker created it, the worker goes
\* on to the naming checks and the copy: no makedirs error, no failure
\* counted, the run not stopped. When it is still missing, the worker
\* creates it, or the error of the creation leaves CopyFunc and the task has
\* failed.
C26_MakedirsRace ==
  /\ [][\A w \in Workers :
          MakeDirsStep(w) =>
            IF dst_state = "dir"
            THEN /\ ~RaisesIn(w, "raise_makedirs")
                 /\ pc'[w] \in {"transfer", "raised"}
                 /\ op_failure_count' = op_failure_count
                 /\ stop' = stop
                 /\ dst_state' = "dir"
            ELSE \/ /\ RaisesIn(w, "raise_makedirs")
                    /\ outcome'[cur[w].task] = "Failed"
                    /\ dst_state' = "missing"
                    /\ engine_calls' = engine_calls
                 \/ /\ dst_state' = "dir"
                    /\ pc'[w] \in {"transfer", "raised"}
                    /\ ~RaisesIn(w, "raise_makedirs")]_vars
  /\ [](\A w \in Workers :
          pc[w] = "makedirs" =>
            (cur[w].info.multi /\ ~have_existing_dst_container))

\* Both workers found the destination missing; one has created it and is
\* copying, the other is about to call os.makedirs.
C26_Witness ==
  /\ dst_state = "dir" /\ ~have_existing_dst_container
  /\ op_failure_count = 0
  /\ \E w1, w2 \in Workers :
       /\ pc[w1] = "transfer"
       /\ pc[w2] = "makedirs"

\* The errors of C27.
DestinationErrors ==
  {"raise_dirfile", "raise_generation", "raise_storage_class"}

\* C27: whenever the computed destination exists as the opposite kind, is a
\* cloud URL with a generation, or is no cloud URL while a storage class was
\* requested, the naming checks end in an error, the one of the first check
\* that applies (the same-file check comes second); the task that raised one
\* of the three errors has failed before the engine was called: no manifest
\* entry of this run, no bytes in the total, no deleted source.
C27_DestinationErrorsBeforeEngine ==
  /\ \A d \in NamingCases(dst_state = "cloud", opts) :
       LET cloud == dst_state = "cloud"
           r == NamingResult(d, opts, cloud)
       IN  /\ d.dirfile => r = "raise_dirfile"
           /\ (cloud /\ d.generation) =>
                r = (IF d.dirfile THEN "raise_dirfile"
                     ELSE IF d.same THEN "raise_same"
                     ELSE "raise_generation")
           /\ (~cloud /\ opts.dest_storage_class) =>
                r = (IF d.dirfile THEN "raise_dirfile"
                     ELSE IF d.same THEN "raise_same"
                     ELSE "raise_storage_class")
  /\ \A w \in Workers :
       cur[w].err \in DestinationErrors =>
         /\ pc[w] = "raised"
         /\ outcome[cur[w].task] = "Failed"
         /\ cur[w].task \notin engine_calls
         /\ NothingDone(cur[w].task)
         /\ cur[w].bytes = 0 /\ ~InTotal(cur[w].task)

\* In a move with a manifest and -s to a local destination, a task has
\* just failed on the storage class.
C27_Witness ==
  /\ opts.perform_mv /\ opts.use_manifest /\ opts.dest_storage_class
  /\ dst_state # "cloud"
  /\ \E w \in Workers :
       pc[w] = "raised" /\ cur[w].err = "raise_storage_class"

\* C28, as stated: every manifest record this run wrote with status error
\* has a description without line terminators, in continue mode and in
\* fail-fast mode.
C28_ErrorDetailSingleLine ==
  \A t \in Tasks :
    (manifest[t].status = "error" /\ manifest[t].lines > 0) =>
      IsSingleLine(manifest[t].description)

\* PerformCopy of worker w ends with signal sig.
EndsWith(w, sig) ==
  pc[w] = "transfer" /\ pc'[w] # "transfer" /\ cur'[w].sig = sig

\* C29, as stated: a task for which PerformCopy raised
\* SkipUnsupportedObjectError is skipped only in a run with -U, CopyFunc
\* going on to the update of the total; in a run without -U the task has
\* failed, and CopyFunc counts the failure in continue mode and raises it
\* otherwise.
C29_UnsupportedSkippedOnlyWithFlag ==
  \A w \in Workers :
    cur[w].sig = "SkipUnsupportedObjectError" =>
      IF opts.skip_unsupported_objects
      THEN pc[w] = "lock" /\ outcome[cur[w].task] = "Skipped"
      ELSE /\ outcome[cur[w].task] = "Failed"
           /\ pc[w] \in (IF opts.continue_on_error
                         THEN {"count_write", "lock"}
                         ELSE {"raised"})

\* C30: the server's no-clobber rejection is handled as a skip when -n was
\* given: nothing counted, the manifest's record a skip of 0 bytes, CopyFunc
\* going on to the update of the total. Without -n it is a failure: in
\* continue mode the handler counts it, adding one to the count it read, and
\* the manifest's record is an error; otherwise the record is an error and
\* the exception is raised out of CopyFunc.
C30_NoClobberRejectionByFlag ==
  /\ [][\A w \in Workers :
          EndsWith(w, "NoClobberServerException") =>
            LET t == cur[w].task
            IN  IF opts.no_clobber
                THEN /\ pc'[w] = "lock"
                     /\ outcome'[t] = "Skipped"
                     /\ op_failure_count' = op_failure_count
                     /\ opts.use_manifest =>
                          /\ manifest'[t].status = "skip"
                          /\ manifest'[t].bytes = 0
                ELSE /\ outcome'[t] = "Failed"
                     /\ IF opts.continue_on_error
                        THEN /\ pc'[w] = "count_write"
                             /\ cur'[w].tmp = op_failure_count
                        ELSE /\ RaisesIn(w, "raise_transfer")
                             /\ opts.use_manifest =>
                                  manifest'[t].status = "error"]_vars
  /\ [][\A w \in Workers :
          (pc[w] = "count_write" /\ pc'[w] # "count_write") =>
            /\ op_failure_count' = cur[w].tmp + 1
            /\ opts.use_manifest =>
                 manifest'[cur[w].task].status = "error"]_vars

\* With -n and a manifest, the server has rejected the copy of a task and
\* the manifest records a skip.
C30_Witness ==
  /\ opts.no_clobber /\ opts.use_manifest
  /\ \E w \in Workers :
       /\ cur[w].sig = "NoClobberServerException" /\ pc[w] = "lock"
       /\ manifest[cur[w].task].status = "skip"
       /\ outcome[cur[w].task] = "Skipped"

\* C31: a record that the manifest file held with status OK or skip when it
\* was loaded is, at every moment of the run, the record that was loaded:
\* not initialised again, no md5 set, no result written.
C31_DoneRecordsUntouched ==
  \A t \in Tasks :
    manifest[t].prior \in {"OK", "skip"} =>
      manifest[t] = PriorRecord(t, manifest[t].prior)

\* A run with a manifest has ended; a source the file had as skipped was
\* handed to CopyFunc and dropped, another source was copied and recorded.
C31_Witness ==
  /\ Completed /\ opts.use_manifest
  /\ \E t, u \in Handled :
       /\ manifest[t].prior = "skip" /\ outcome[t] = "AlreadyDone"
       /\ manifest[t] = PriorRecord(t, "skip")
       /\ manifest[u].lines > 0

\* C32: the flag for an existing destination container is set by the one
\* expansion of the destination, in the step in which the generator builds
\* its tuple, which is no later than the step that hands out the first
\* task, and no other step changes it; every task is named with that flag
\* and the one expanded destination, also when os.makedirs has created the
\* destination since.
C32_DestinationResolvedOnce ==
  /\ [][/\ (~TupleBuilt /\ TupleBuilt') =>
             have_existing_dst_container' = (dst_state # "missing")
        /\ (TupleBuilt \/ ~TupleBuilt') =>
             have_existing_dst_container' = have_existing_dst_container
        /\ TupleBuilt => TupleBuilt'
        /\ next_task' # next_task => (rc_pc = "apply" /\ TupleBuilt')
        /\ \A w \in Workers :
             NamedStep(w) =>
               /\ cur'[w].src_url \in SrcUrls(cur[w].info)
               /\ \A top \in MultiTopLevel(cur[w].info) :
                    cur'[w].dst =
                      ConstructDstUrl(cur'[w].src_url,
                                      ExpSrcUrl(cur[w].info),
                                      cur[w].info.names_container,
                                      cur[w].info.multi, top, <<"dst">>,
                                      have_existing_dst_container,
                                      cur'[w].recursion,
                                      opts.preserve_posix_attrs)]_vars
  /\ [](have_existing_dst_container => dst_state # "missing")

\* A task of several sources is named under a destination that an earlier
\* task created: the directory exists, the flag still says it did not, and
\* the source lands in it under its last component.
C32_Witness ==
  /\ dst_state = "dir" /\ ~have_existing_dst_container
  /\ engine_calls = Tasks
  /\ \E w \in Workers :
       /\ pc[w] = "transfer" /\ cur[w].task = 2
       /\ cur[w].dst = <<"dst", "c">>

\* Tasks that failed: the copy failed, a check raised, or the deletion of
\* the source raised.
FailedTasks == {t \in Handled : TaskFailed(t)}

\* C33, as stated: every failed task adds exactly one to op_failure_count,
\* in CopyFunc or in _CopyExceptionHandler and never in both: the count
\* never exceeds the number of failed tasks, and when a run in which Apply
\* handles the exceptions is over, the count is that number.
C33_FailureCountedOnce ==
  /\ op_failure_count <= Cardinality(FailedTasks)
  /\ (Completed /\ ~StopsOnError) =>
       op_failure_count = Cardinality(FailedTasks)

\* C34, as stated: in a move with a manifest, once CopyFunc is done with a
\* task whose record this run wrote with status OK, the source of the task
\* has been deleted, so that no source is recorded OK and still there.
C34_RecordedOKIsDeleted ==
  (opts.perform_mv /\ opts.use_manifest) =>
    \A t \in Tasks :
      (Ended(t) /\ manifest[t].lines > 0 /\ manifest[t].status = "OK") =>
        t \in deleted

\* C35, as stated: in a move, once CopyFunc is done with a task whose copy
\* succeeded, the bytes of the task are in total_bytes_transferred, whether
\* the deletion of the source passed or raised.
C35_BytesCountedDespiteDeletion ==
  opts.perform_mv =>
    \A t \in Tasks :
      (Ended(t) /\ outcome[t] = "Success") => InTotal(t)

\* C37: when the last argument is "-" or a named pipe, nothing of the copy
\* pipeline ever happens: no task is handed out, no worker leaves idle, the
\* engine is not called, no source is deleted (also in a move), no manifest
\* record is initialised or written, no iterator is built, the failure
\* count stays untouched and no failure stops a dispatch; and when
\* RunCommand hands over to CatHelper, its result is what CatHelper returns.
C37_StreamDestinationFrame ==
  args.dst \in {"stdout", "fifo"} =>
    /\ next_task = 1 /\ ~exhausted /\ stop = NoVal
    /\ \A w \in Workers : pc[w] = "idle" /\ cur[w] = IdleCur
    /\ engine_calls = {} /\ deleted = {} /\ del_failed = {}
    /\ \A t \in Tasks :
         /\ manifest[t].lines = 0
         /\ manifest[t].status = manifest[t].prior
         /\ outcome[t] = NoVal
    /\ ~seek_ahead_iterator /\ combined_src_urls = <<>>
    /\ op_failure_count = 0 /\ total_bytes_transferred = 0
    /\ rc_pc \in {"start", "parsed", "done"}
    /\ (rc_pc = "done" /\ "P" \notin sub_opts) =>
         result = [kind |-> "cat", err |-> NoVal, count |-> 0]

\* A move of two sources to "-" with a manifest that records a source as
\* copied has ended with the result of CatHelper.
C37_Witness ==
  /\ args.dst = "stdout" /\ args.n = 3
  /\ {"M", "L"} \subseteq sub_opts /\ opts.perform_mv /\ manifest_created
  /\ \E t \in Tasks : manifest[t].prior = "OK"
  /\ rc_pc = "done" /\ result.kind = "cat" /\ deleted = {}

\* C38, as stated: the recursion flag ConstructDstUrl gets for a task is
\* fixed by the task and the options (-r, or the task being the move of a
\* container), whatever other tasks have run by then.
C38_RecursionFlagByTask ==
  [][\A w \in Workers :
       NamedStep(w) =>
         cur'[w].recursion =
           (recursion_of(sub_opts) \/
              (opts.perform_mv /\ cur[w].info.names_container))]_vars

\* C39: the holder of stats_lock is always a worker at the addition to
\* total_bytes_transferred, never one in the checks, in os.makedirs, in a
\* transfer, a deletion, a manifest write or an update of the failure
\* count; the step that leaves the addition adds the bytes of the task once
\* and releases the lock; a worker waiting for the lock gets it; and every
\* run ends, with no worker left in a task and the lock free, by returning,
\* by the failure that bears the count, or by a propagated error.
C39_StatsLockBrief ==
  /\ [](\A w \in Workers : stats_lock = w <=> pc[w] = "add")
  /\ [][\A w \in Workers :
          (stats_lock = w /\ pc'[w] # "add") =>
            /\ stats_lock' = NoVal
            /\ total_bytes_transferred' =
                 total_bytes_transferred + cur[w].bytes]_vars
  /\ \A w \in Workers : (pc[w] = "lock") ~> (stats_lock = w)
  /\ <>[](/\ rc_pc = "done" /\ stats_lock = NoVal
          /\ \A w \in Workers : pc[w] = "idle"
          /\ result.kind \in {"return", "CommandException", "propagated"})

\* One worker holds the lock for its addition while the other, whose
\* transfer has ended too, waits for it.
C39_Witness ==
  \E w1, w2 \in Workers :
    /\ stats_lock = w1 /\ pc[w1] = "add"
    /\ pc[w2] = "lock" /\ cur[w2].bytes > 0

====
